---- MODULE Spec2Model ----
(***************************************************************************)
(* Model of SudokuSolver.py: the conflict graph (build_sudoku_graph), the  *)
(* backtracking graph-colouring solver (solve_sudoku_with_graph), the      *)
(* puzzle generator (generate_random_sudoku), the start-up of main and its *)
(* event handlers (hint button, solve button, key presses, get_hint).      *)
(*                                                                         *)
(* A grid is a function from the 81 cells <<i, j>> (0-based, as in the     *)
(* Python lists) to 0..9, 0 meaning empty.  The dict `colors` is a         *)
(* function whose domain is the set of cells that are keys of the dict.    *)
(* The recursion of backtrack is an explicit stack of frames.              *)
(***************************************************************************)
EXTENDS Integers, Sequences, FiniteSets, TLC

VARIABLES
    gpc,          \* build_sudoku_graph: position ("nodes", "rowcol", "box", "built")
    Gv,           \* build_sudoku_graph: the graph G under construction
    it,           \* build_sudoku_graph: the loop variables of the running loop
    grid,         \* the list object passed to solve_sudoku_with_graph
    input_grid,   \* contents of that object when the call was made
    colors,       \* the dict colors of solve_sudoku_with_graph
    stack,        \* the active frames of backtrack, outermost first
    node_index,   \* argument of the backtrack call being entered
    result,       \* value returned by the backtrack call that returned last
    success,      \* value returned by solve_sudoku_with_graph
    pc,           \* solve_sudoku_with_graph: position
    mpc,          \* main / generate_random_sudoku: position
    draws,        \* generate_random_sudoku: iterations left of the removal loop
    sudoku_grid,  \* main: the working grid
    solved_grid,  \* main: the solved reference grid
    selected_cell,\* main: the selected cell, or None
    hint          \* main: value returned by the last get_hint call

vars == <<gpc, Gv, it, grid, input_grid, colors, stack, node_index, result,
          success, pc, mpc, draws, sudoku_grid, solved_grid, selected_cell, hint>>

graphVars == <<gpc, Gv, it>>
solveVars == <<grid, input_grid, colors, stack, node_index, result, success, pc>>
mainVars  == <<mpc, draws, sudoku_grid, solved_grid, selected_cell, hint>>

None == "None"

-----------------------------------------------------------------------------
(* Board geometry and grids *)

Side == 9
Box == 3

Range(n) == 0 .. (n - 1)

Nodes == Range(Side) \X Range(Side)

EmptyGrid == [n \in Nodes |-> 0]

\* the list of all cells in the order G.add_node inserted them (row-major)
NodeList == [k \in 1 .. (Side * Side) |-> <<(k - 1) \div Side, (k - 1) % Side>>]

\* grid given as a tuple of rows, as a Python list of lists
FromRows(rows) == [n \in Nodes |-> rows[n[1] + 1][n[2] + 1]]

-----------------------------------------------------------------------------
(* build_sudoku_graph *)

\* iterations of the loop nest  for i / for j / for k in range(j + 1, 9)
RowColIters == {t \in Range(Side) \X Range(Side) \X Range(Side) : t[3] > t[2]}

\* variant: the same-column edge is left out
RowColStep_row_only(i, j, k) == { {<<i, j>>, <<i, k>>} }

\* the two add_edge calls of one iteration: same row, same column
RowColStep(i, j, k) == { {<<i, j>>, <<i, k>>}, {<<j, i>>, <<k, i>>} }

\* the list comprehension `cells` of one box, 1-based
BoxCellList(box_row, box_col) ==
    [p \in 1 .. (Box * Box) |->
        <<box_row * Box + ((p - 1) \div Box), box_col * Box + ((p - 1) % Box)>>]

\* iterations of  for box_row / for box_col / for m / for n in range(m + 1, len(cells))
BoxIters ==
    {t \in Range(Box) \X Range(Box) \X Range(Box * Box) \X Range(Box * Box) : t[4] > t[3]}

\* the add_edge call of one iteration: cells[m], cells[n] (Python indexes from 0)
BoxStep(box_row, box_col, m, n) ==
    { {BoxCellList(box_row, box_col)[m + 1], BoxCellList(box_row, box_col)[n + 1]} }

\* G.add_edge for a set of edges: missing end points become nodes
add_edges(G, E) == [nodes |-> G.nodes \cup UNION E, edges |-> G.edges \cup E]

NoGraph == [nodes |-> {}, edges |-> {}]

\* the graph build_sudoku_graph returns
build_sudoku_graph ==
    add_edges(add_edges([nodes |-> Nodes, edges |-> {}],
                        UNION {RowColStep(t[1], t[2], t[3]) : t \in RowColIters}),
              UNION {BoxStep(t[1], t[2], t[3], t[4]) : t \in BoxIters})

\* G.neighbors(node)
neighbors(G, node) == {m \in G.nodes : {node, m} \in G.edges}

NoIter == << >>

\* loop variables of the iteration that follows t, or NoIter after the last one
NextNodeIter(t) ==
    IF t[2] + 1 < Side THEN <<t[1], t[2] + 1>>
    ELSE IF t[1] + 1 < Side THEN <<t[1] + 1, 0>>
    ELSE NoIter

NextRowColIter(t) ==
    IF t[3] + 1 < Side THEN <<t[1], t[2], t[3] + 1>>
    ELSE IF t[2] + 2 < Side THEN <<t[1], t[2] + 1, t[2] + 2>>
    ELSE IF t[1] + 1 < Side THEN <<t[1] + 1, 0, 1>>
    ELSE NoIter

NextBoxIter(t) ==
    IF t[4] + 1 < Box * Box THEN <<t[1], t[2], t[3], t[4] + 1>>
    ELSE IF t[3] + 2 < Box * Box THEN <<t[1], t[2], t[3] + 1, t[3] + 2>>
    ELSE IF t[2] + 1 < Box THEN <<t[1], t[2] + 1, 0, 1>>
    ELSE IF t[1] + 1 < Box THEN <<t[1] + 1, 0, 0, 1>>
    ELSE NoIter

\* lines 17-19: one G.add_node
AddNode ==
    /\ gpc = "nodes"
    /\ Gv' = [Gv EXCEPT !.nodes = @ \cup {it}]
    /\ IF NextNodeIter(it) = NoIter
       THEN gpc' = "rowcol" /\ it' = <<0, 0, 1>>
       ELSE gpc' = gpc /\ it' = NextNodeIter(it)
    /\ UNCHANGED <<solveVars, mainVars>>

\* lines 22-26: one iteration of the row and column loop
AddRowColEdges ==
    /\ gpc = "rowcol"
    /\ Gv' = add_edges(Gv, RowColStep(it[1], it[2], it[3]))
    /\ IF NextRowColIter(it) = NoIter
       THEN gpc' = "box" /\ it' = <<0, 0, 0, 1>>
       ELSE gpc' = gpc /\ it' = NextRowColIter(it)
    /\ UNCHANGED <<solveVars, mainVars>>

\* lines 29-37: one iteration of the box loop; line 39 after the last
AddBoxEdge ==
    /\ gpc = "box"
    /\ Gv' = add_edges(Gv, BoxStep(it[1], it[2], it[3], it[4]))
    /\ IF NextBoxIter(it) = NoIter
       THEN gpc' = "built" /\ it' = << >>
       ELSE gpc' = gpc /\ it' = NextBoxIter(it)
    /\ UNCHANGED <<solveVars, mainVars>>

-----------------------------------------------------------------------------
(* solve_sudoku_with_graph *)

\* lines 46-50: the dict built from the non-zero cells of the grid
SeedColors(g) == [n \in {m \in Nodes : g[m] # 0} |-> g[n]]

\* variant: range(1, 9) instead of range(1, 10)
possible_colors_short == 1 .. 8

\* line 53; iterated in increasing order
possible_colors == 1 .. 9

FirstColor == 1

\* variant: the loop does not advance
NextColor_stuck(color) == color

\* line 70: the color after `color` in the iteration
NextColor(color) == color + 1

\* variant: the check never rejects
is_valid_coloring_always(G, cols, node, color) == TRUE

\* lines 56-60
is_valid_coloring(G, cols, node, color) ==
    \A neighbor \in neighbors(G, node) :
        ~(neighbor \in DOMAIN cols /\ cols[neighbor] = color)

\* variant: pre-filled nodes are not recognised
IsPrefilled_never(cols, node) == FALSE

\* line 67: node in colors
IsPrefilled(cols, node) == node \in DOMAIN cols

\* line 72: colors[node] = color
SetColor(cols, node, color) ==
    [n \in DOMAIN cols \cup {node} |-> IF n = node THEN color ELSE cols[n]]

\* variant: the tentative assignment is not withdrawn
DelColor_kept(cols, node) == cols

\* line 75: del colors[node]
DelColor(cols, node) == [n \in DOMAIN cols \ {node} |-> cols[n]]

\* lines 80-81: every entry of colors written into the grid
WriteBack(g, cols) == [n \in Nodes |-> IF n \in DOMAIN cols THEN cols[n] ELSE g[n]]

\* line 66: list(G.nodes)[node_index]
NodeAt(k) == NodeList[k + 1]

Top == stack[Len(stack)]
Pop == SubSeq(stack, 1, Len(stack) - 1)
SetTopColor(c) == [stack EXCEPT ![Len(stack)].color = c]

\* lines 43-53, then the call backtrack(0) of line 79
Seed ==
    /\ pc = "seed"
    /\ colors' = SeedColors(grid)
    /\ node_index' = 0
    /\ pc' = "call"
    /\ UNCHANGED <<grid, input_grid, stack, result, success>>
    /\ UNCHANGED <<graphVars, mainVars>>

\* lines 63-64: the base case
BacktrackBase ==
    /\ pc = "call"
    /\ node_index = Cardinality(build_sudoku_graph.nodes)
    /\ result' = TRUE
    /\ pc' = "ret"
    /\ UNCHANGED <<grid, input_grid, colors, stack, node_index, success>>
    /\ UNCHANGED <<graphVars, mainVars>>

\* lines 66-68: a pre-filled node is skipped by a nested call
BacktrackSkip ==
    /\ pc = "call"
    /\ node_index # Cardinality(build_sudoku_graph.nodes)
    /\ IsPrefilled(colors, NodeAt(node_index))
    /\ stack' = Append(stack, [node_index |-> node_index, at |-> "skip", color |-> 0])
    /\ node_index' = node_index + 1
    /\ UNCHANGED <<grid, input_grid, colors, result, success, pc>>
    /\ UNCHANGED <<graphVars, mainVars>>

\* lines 66-70: an empty node starts the loop over possible_colors
BacktrackLoop ==
    /\ pc = "call"
    /\ node_index # Cardinality(build_sudoku_graph.nodes)
    /\ ~IsPrefilled(colors, NodeAt(node_index))
    /\ stack' = Append(stack, [node_index |-> node_index, at |-> "loop", color |-> FirstColor])
    /\ pc' = "loop"
    /\ UNCHANGED <<grid, input_grid, colors, node_index, result, success>>
    /\ UNCHANGED <<graphVars, mainVars>>

\* lines 71-73: a valid color is assigned and the next node is entered
LoopAssign ==
    /\ pc = "loop"
    /\ Top.color \in possible_colors
    /\ is_valid_coloring(build_sudoku_graph, colors, NodeAt(Top.node_index), Top.color)
    /\ colors' = SetColor(colors, NodeAt(Top.node_index), Top.color)
    /\ node_index' = Top.node_index + 1
    /\ pc' = "call"
    /\ UNCHANGED <<grid, input_grid, stack, result, success>>
    /\ UNCHANGED <<graphVars, mainVars>>

\* lines 70-71: an invalid color is passed over
LoopReject ==
    /\ pc = "loop"
    /\ Top.color \in possible_colors
    /\ ~is_valid_coloring(build_sudoku_graph, colors, NodeAt(Top.node_index), Top.color)
    /\ stack' = SetTopColor(NextColor(Top.color))
    /\ UNCHANGED <<grid, input_grid, colors, node_index, result, success, pc>>
    /\ UNCHANGED <<graphVars, mainVars>>

\* line 77: the loop ran out of colors
LoopExhausted ==
    /\ pc = "loop"
    /\ Top.color \notin possible_colors
    /\ result' = FALSE
    /\ stack' = Pop
    /\ pc' = "ret"
    /\ UNCHANGED <<grid, input_grid, colors, node_index, success>>
    /\ UNCHANGED <<graphVars, mainVars>>

\* line 68: the frame of a skipped node returns what the nested call returned
ReturnSkip ==
    /\ pc = "ret"
    /\ stack # <<>>
    /\ Top.at = "skip"
    /\ stack' = Pop
    /\ UNCHANGED <<grid, input_grid, colors, node_index, result, success, pc>>
    /\ UNCHANGED <<graphVars, mainVars>>

\* lines 73-74: the nested call succeeded
ReturnTrue ==
    /\ pc = "ret"
    /\ stack # <<>>
    /\ Top.at = "loop"
    /\ result
    /\ stack' = Pop
    /\ UNCHANGED <<grid, input_grid, colors, node_index, result, success, pc>>
    /\ UNCHANGED <<graphVars, mainVars>>

\* lines 73, 75: the nested call failed; undo and go on with the next color
ReturnUndo ==
    /\ pc = "ret"
    /\ stack # <<>>
    /\ Top.at = "loop"
    /\ ~result
    /\ colors' = DelColor(colors, NodeAt(Top.node_index))
    /\ stack' = SetTopColor(NextColor(Top.color))
    /\ pc' = "loop"
    /\ UNCHANGED <<grid, input_grid, node_index, result, success>>
    /\ UNCHANGED <<graphVars, mainVars>>

\* lines 79-84: backtrack(0) has returned; on success the Assignment is
\* written into the grid
SolveReturn ==
    /\ pc = "ret"
    /\ stack = <<>>
    /\ grid' = IF result THEN WriteBack(grid, colors) ELSE grid
    /\ success' = result
    /\ pc' = "done"
    /\ UNCHANGED <<input_grid, colors, stack, node_index, result>>
    /\ UNCHANGED <<graphVars, mainVars>>

-----------------------------------------------------------------------------
(* generate_random_sudoku, get_hint, main *)

MinRemovals == 40
MaxRemovals == 50

\* cells the removal loop may draw, cells the user may click, digit keys
\* the user may press
MaxRemovalCells == 3
MaxClickCells == 2
MaxKeyDigit == 2

RemovalSeq == << <<0, 0>>, <<0, 8>>, <<1, 5>>, <<4, 4>>, <<8, 8>> >>
ClickSeq == << <<0, 0>>, <<0, 1>>, <<4, 4>> >>

RemovalCells == {RemovalSeq[k] : k \in 1 .. MaxRemovalCells}
ClickCells == {ClickSeq[k] : k \in 1 .. MaxClickCells}
KeyDigits == 0 .. MaxKeyDigit

\* variant: the scan stops at the first non-zero cell
RECURSIVE HintScan_nonzero(_, _, _)
HintScan_nonzero(g, solved, k) ==
    IF k = Side * Side THEN None
    ELSE IF g[NodeAt(k)] # 0
         THEN <<NodeAt(k)[1], NodeAt(k)[2], solved[NodeAt(k)]>>
         ELSE HintScan_nonzero(g, solved, k + 1)

\* lines 114-118: the scan of get_hint from the cell of row-major index k on
RECURSIVE HintScan(_, _, _)
HintScan(g, solved, k) ==
    IF k = Side * Side THEN None
    ELSE IF g[NodeAt(k)] = 0
         THEN <<NodeAt(k)[1], NodeAt(k)[2], solved[NodeAt(k)]>>
         ELSE HintScan(g, solved, k + 1)

\* variant: the scan starts at the second cell
get_hint_skip_first(g, solved) == HintScan(g, solved, 1)

\* lines 112-118
get_hint(g, solved) == HintScan(g, solved, 0)

\* line 106: the number of removal draws
GenChooseCount ==
    /\ mpc = "generate"
    /\ pc = "done"
    /\ \E n \in MinRemovals .. MaxRemovals : draws' = n
    /\ mpc' = "remove"
    /\ UNCHANGED <<sudoku_grid, solved_grid, selected_cell, hint>>
    /\ UNCHANGED <<graphVars, solveVars>>

\* lines 107-108: one draw of the removal loop
GenRemove ==
    /\ mpc = "remove"
    /\ draws > 0
    /\ \E n \in RemovalCells : grid' = [grid EXCEPT ![n] = 0]
    /\ draws' = draws - 1
    /\ UNCHANGED <<mpc, sudoku_grid, solved_grid, selected_cell, hint>>
    /\ UNCHANGED <<graphVars, input_grid, colors, stack, node_index, result, success, pc>>

\* lines 110, 138-140: the puzzle is returned, copied, and the copy is
\* handed to the solver
MainSolveCopy ==
    /\ mpc = "remove"
    /\ draws = 0
    /\ sudoku_grid' = grid
    /\ grid' = grid
    /\ input_grid' = grid
    /\ colors' = << >> /\ stack' = << >> /\ node_index' = 0
    /\ result' = FALSE /\ success' = FALSE
    /\ pc' = "seed"
    /\ mpc' = "solve"
    /\ UNCHANGED <<draws, solved_grid, selected_cell, hint>>
    /\ UNCHANGED graphVars

\* line 140 returns: solved_grid is the list the solver worked on
MainSolved ==
    /\ mpc = "solve"
    /\ pc = "done"
    /\ solved_grid' = grid
    /\ mpc' = "started"
    /\ UNCHANGED <<draws, sudoku_grid, selected_cell, hint>>
    /\ UNCHANGED <<graphVars, solveVars>>

\* lines 141-149
MainSetup ==
    /\ mpc = "started"
    /\ selected_cell' = None
    /\ mpc' = "events"
    /\ UNCHANGED <<draws, sudoku_grid, solved_grid, hint>>
    /\ UNCHANGED <<graphVars, solveVars>>

\* lines 153-154
Quit ==
    /\ mpc = "events"
    /\ mpc' = "quit"
    /\ UNCHANGED <<draws, sudoku_grid, solved_grid, selected_cell, hint>>
    /\ UNCHANGED <<graphVars, solveVars>>

\* lines 156-157: the solve button
ClickSolve ==
    /\ mpc = "events"
    /\ sudoku_grid' = solved_grid
    /\ UNCHANGED <<mpc, draws, solved_grid, selected_cell, hint>>
    /\ UNCHANGED <<graphVars, solveVars>>

\* lines 158-159: the hint button, the call of get_hint
HintCall ==
    /\ mpc = "events"
    /\ hint' = get_hint(sudoku_grid, solved_grid)
    /\ mpc' = "hint"
    /\ UNCHANGED <<draws, sudoku_grid, solved_grid, selected_cell>>
    /\ UNCHANGED <<graphVars, solveVars>>

\* lines 160-162: the hint, if any, is written into the working grid
HintWrite ==
    /\ mpc = "hint"
    /\ IF hint # None
       THEN sudoku_grid' = [sudoku_grid EXCEPT ![<<hint[1], hint[2]>>] = hint[3]]
       ELSE sudoku_grid' = sudoku_grid
    /\ mpc' = "events"
    /\ UNCHANGED <<draws, solved_grid, selected_cell, hint>>
    /\ UNCHANGED <<graphVars, solveVars>>

\* lines 164-169: a click on a cell of the board
ClickCell ==
    /\ mpc = "events"
    /\ \E n \in ClickCells : selected_cell' = n
    /\ UNCHANGED <<mpc, draws, sudoku_grid, solved_grid, hint>>
    /\ UNCHANGED <<graphVars, solveVars>>

\* lines 170-175: a digit key while a cell is selected
KeyPress ==
    /\ mpc = "events"
    /\ selected_cell # None
    /\ \E d \in KeyDigits : sudoku_grid' = [sudoku_grid EXCEPT ![selected_cell] = d]
    /\ UNCHANGED <<mpc, draws, solved_grid, selected_cell, hint>>
    /\ UNCHANGED <<graphVars, solveVars>>

-----------------------------------------------------------------------------
(* Callers of the solver: input grids *)

MaxHoles == 4
MaxOverrides == 2

\* a solved grid: what the solver returns for the all-empty grid
Reference ==
    FromRows(<< <<1, 2, 3, 4, 5, 6, 7, 8, 9>>,
                <<4, 5, 6, 7, 8, 9, 1, 2, 3>>,
                <<7, 8, 9, 1, 2, 3, 4, 5, 6>>,
                <<2, 1, 4, 3, 6, 5, 8, 9, 7>>,
                <<3, 6, 5, 8, 9, 7, 2, 1, 4>>,
                <<8, 9, 7, 2, 1, 4, 3, 6, 5>>,
                <<5, 3, 1, 6, 4, 2, 9, 7, 8>>,
                <<6, 4, 2, 9, 7, 8, 5, 3, 1>>,
                <<9, 7, 8, 5, 3, 1, 6, 4, 2>> >>)

\* a solved grid with 5 in the first cell
ReferenceFive ==
    FromRows(<< <<5, 1, 2, 3, 4, 6, 7, 8, 9>>,
                <<3, 4, 6, 7, 8, 9, 1, 2, 5>>,
                <<7, 8, 9, 1, 2, 5, 3, 4, 6>>,
                <<1, 2, 3, 4, 5, 7, 6, 9, 8>>,
                <<4, 5, 7, 6, 9, 8, 2, 1, 3>>,
                <<6, 9, 8, 2, 1, 3, 4, 5, 7>>,
                <<2, 3, 5, 8, 6, 1, 9, 7, 4>>,
                <<8, 6, 1, 9, 7, 4, 5, 3, 2>>,
                <<9, 7, 4, 5, 3, 2, 8, 6, 1>> >>)

\* the grid whose only given is (0,0) = 5
OnlyFive == [EmptyGrid EXCEPT ![<<0, 0>>] = 5]

\* cells that may be cleared, and givens that may be overwritten, in an input
HoleSeq == << <<0, 0>>, <<0, 8>>, <<1, 5>>, <<4, 4>>, <<8, 8>>, <<4, 0>> >>
OverrideSeq == << [cell |-> <<0, 4>>, value |-> 9],
                  [cell |-> <<0, 1>>, value |-> 1],
                  [cell |-> <<2, 8>>, value |-> 9],
                  [cell |-> <<8, 8>>, value |-> 2] >>

HoleCells == {HoleSeq[k] : k \in 1 .. MaxHoles}
Overrides == {OverrideSeq[k] : k \in 1 .. MaxOverrides}

Punch(g, H) == [n \in Nodes |-> IF n \in H THEN 0 ELSE g[n]]

InputGrids ==
    {EmptyGrid, OnlyFive}
    \cup {Punch(Reference, H) : H \in SUBSET HoleCells}
    \cup {Punch([Reference EXCEPT ![o.cell] = o.value], H) :
              o \in Overrides, H \in SUBSET HoleCells}

IdleGraph == gpc = "idle" /\ Gv = NoGraph /\ it = <<>>
IdleMain ==
    /\ mpc = "idle" /\ draws = 0
    /\ sudoku_grid = EmptyGrid /\ solved_grid = EmptyGrid
    /\ selected_cell = None /\ hint = None

\* a call solve_sudoku_with_graph(grid) about to start
SolveEntry(g) ==
    /\ grid = g /\ input_grid = g
    /\ colors = << >> /\ stack = << >> /\ node_index = 0
    /\ result = FALSE /\ success = FALSE
    /\ pc = "seed"

\* no call of the solver is in progress
IdleSolve ==
    /\ grid = EmptyGrid /\ input_grid = EmptyGrid
    /\ colors = << >> /\ stack = << >> /\ node_index = 0
    /\ result = FALSE /\ success = FALSE
    /\ pc = "idle"

Init == IdleGraph /\ IdleMain /\ \E g \in InputGrids : SolveEntry(g)

Next ==
    \/ Seed
    \/ BacktrackBase \/ BacktrackSkip \/ BacktrackLoop
    \/ LoopAssign \/ LoopReject \/ LoopExhausted
    \/ ReturnSkip \/ ReturnTrue \/ ReturnUndo
    \/ SolveReturn

Spec == Init /\ [][Next]_vars

\* build_sudoku_graph on its own, one loop iteration per step
InitGraph ==
    /\ gpc = "nodes" /\ Gv = NoGraph /\ it = <<0, 0>>
    /\ IdleSolve /\ IdleMain

NextGraph == AddNode \/ AddRowColEdges \/ AddBoxEdge

SpecGraph == InitGraph /\ [][NextGraph]_vars

\* the program: generation, start-up, then the event loop
InitMain ==
    /\ IdleGraph
    /\ SolveEntry(EmptyGrid)
    /\ mpc = "generate" /\ draws = 0
    /\ sudoku_grid = EmptyGrid /\ solved_grid = EmptyGrid
    /\ selected_cell = None /\ hint = None

NextMain ==
    \/ Seed
    \/ BacktrackBase \/ BacktrackSkip \/ BacktrackLoop
    \/ LoopAssign \/ LoopReject \/ LoopExhausted
    \/ ReturnSkip \/ ReturnTrue \/ ReturnUndo
    \/ SolveReturn
    \/ GenChooseCount \/ GenRemove \/ MainSolveCopy \/ MainSolved \/ MainSetup
    \/ Quit \/ ClickSolve \/ HintCall \/ HintWrite \/ ClickCell \/ KeyPress

SpecMain == InitMain /\ [][NextMain]_vars

\* the solver is a sequential computation: a step that can be taken is taken
LiveSpec == Spec /\ WF_vars(Next)

-----------------------------------------------------------------------------
(* Properties of the solver *)

\* the Sudoku rule, stated on the board and not on the graph
SameBox(a, b) == (a[1] \div Box = b[1] \div Box) /\ (a[2] \div Box = b[2] \div Box)
Conflicting(a, b) == a # b /\ (a[1] = b[1] \/ a[2] = b[2] \/ SameBox(a, b))

EmptyCells(g) == {n \in Nodes : g[n] = 0}

Contradictory(g) ==
    \E a \in Nodes, b \in Nodes : Conflicting(a, b) /\ g[a] # 0 /\ g[a] = g[b]

IsFullValid(g) == EmptyCells(g) = {} /\ ~Contradictory(g)

Extends(s, g) == \A n \in Nodes : g[n] # 0 => s[n] = g[n]

\* some assignment of digits 1..9 to the empty cells gives a full valid grid:
\* decided by enumeration when few cells are empty, and otherwise by
\* exhibiting a known solved grid that extends g
MaxEnum == MaxHoles
KnownSolutions == {Reference, ReferenceFive}
HasCompletion(g) ==
    IF Cardinality(EmptyCells(g)) <= MaxEnum
    THEN /\ ~Contradictory(g)
         /\ \E f \in [EmptyCells(g) -> 1 .. 9] :
               /\ \A e \in EmptyCells(g) : \A n \in Nodes :
                      Conflicting(e, n) /\ g[n] # 0 => g[n] # f[e]
               /\ \A e \in EmptyCells(g) : \A n \in EmptyCells(g) :
                      Conflicting(e, n) => f[e] # f[n]
    ELSE \E s \in KnownSolutions : IsFullValid(s) /\ Extends(s, g)

Returned == pc = "done"

\* C1 (as claimed): whenever the solver returns success, every cell of the
\* grid is non-zero and no two conflicting cells hold the same value.
C1_ValidOnSuccess == (Returned /\ success) => IsFullValid(grid)

\* C2 (as claimed): an input with two conflicting cells holding the same
\* non-zero value makes the solver return failure.
C2_ContradictionRejected == (Returned /\ Contradictory(input_grid)) => ~success

\* C3: whenever the empty cells of the input can be filled with digits 1..9
\* so that no two conflicting cells are equal, the solver returns success;
\* so it does on the all-empty grid and on the grid with only (0,0) = 5.
C3_Complete ==
    /\ (Returned /\ HasCompletion(input_grid)) => success
    /\ (Returned /\ input_grid \in {EmptyGrid, OnlyFive}) => success

C3_Witness ==
    /\ Returned /\ success /\ input_grid = OnlyFive
    /\ HasCompletion(input_grid) /\ grid = ReferenceFive

\* C4: a cell that was non-zero in the input holds the same value in the
\* grid at every moment of the call and after it, is in the Assignment with
\* that value from the seeding on, and is only ever visited by a skipping frame.
C4_Conservative ==
    \A n \in Nodes : input_grid[n] # 0 =>
        /\ grid[n] = input_grid[n]
        /\ pc # "seed" => (n \in DOMAIN colors /\ colors[n] = input_grid[n])
        /\ \A k \in 1 .. Len(stack) :
               NodeAt(stack[k].node_index) = n => stack[k].at = "skip"

C4_Witness ==
    /\ Returned /\ success
    /\ input_grid = Punch(Reference, HoleCells)
    /\ grid = Reference

\* C5: when the solver returns failure, the grid equals the input grid and
\* the Assignment holds exactly the seeded givens.
C5_FailureLeavesNoTrace ==
    (Returned /\ ~success) =>
        (grid = input_grid /\ colors = SeedColors(input_grid))

\* a failed search whose first cell was empty and had a digit to try, so
\* that a tentative assignment was made and withdrawn
C5_Witness ==
    /\ Returned /\ ~success
    /\ input_grid[NodeAt(0)] = 0
    /\ \E c \in possible_colors :
           is_valid_coloring(build_sudoku_graph, SeedColors(input_grid), NodeAt(0), c)
    /\ NodeAt(0) \notin DOMAIN colors

\* the frames on the stack are those of node indexes 0, 1, 2, ... in this
\* order (one level deeper, one index further), so no cell has two frames
\* and at most 81 frames are active below the base case at index 81
StackShape ==
    /\ Len(stack) <= Side * Side
    /\ \A k \in 1 .. Len(stack) : stack[k].node_index = k - 1
    /\ pc = "call" => node_index = Len(stack) /\ node_index <= Side * Side

\* C10: every call of the solver returns, and throughout the recursion has
\* one frame per node index, the index growing by one per level up to the
\* base case at 81.
C10_Terminates == <>Returned /\ []StackShape

C10_Witness == pc = "call" /\ node_index = Side * Side /\ Len(stack) = Side * Side

-----------------------------------------------------------------------------
(* Properties of the graph *)

\* C6: the graph returned by build_sudoku_graph has the 81 cells as nodes;
\* two cells are adjacent iff they are distinct and share a row, a column or
\* a box; every cell has exactly 20 neighbours, adjacency is symmetric and
\* no cell is its own neighbour.
C6_GraphCorrect ==
    gpc = "built" =>
        /\ Gv.nodes = Nodes /\ Cardinality(Gv.nodes) = 81
        /\ Gv = build_sudoku_graph
        /\ \A a \in Nodes, b \in Nodes :
               /\ b \in neighbors(Gv, a) <=> Conflicting(a, b)
               /\ b \in neighbors(Gv, a) => a \in neighbors(Gv, b)
        /\ \A a \in Nodes :
               /\ Cardinality(neighbors(Gv, a)) = 20
               /\ a \notin neighbors(Gv, a)

C6_Witness ==
    /\ gpc = "built"
    /\ <<1, 1>> \in neighbors(Gv, <<0, 0>>)
    /\ <<0, 8>> \in neighbors(Gv, <<0, 0>>)
    /\ <<8, 0>> \in neighbors(Gv, <<0, 0>>)
    /\ <<3, 3>> \notin neighbors(Gv, <<0, 0>>)

-----------------------------------------------------------------------------
(* Properties of the generator and of the hints *)

\* C7: when main has started, solved_grid (the solved copy of the generated
\* puzzle) is a full valid grid and every non-zero cell of the puzzle equals
\* the same cell of solved_grid; input_grid holds the puzzle as it was
\* copied for the solver.
C7_GeneratorValid ==
    /\ mpc = "solve" => sudoku_grid = input_grid
    /\ mpc = "started" =>
           /\ sudoku_grid = input_grid
           /\ IsFullValid(solved_grid)
           /\ Extends(solved_grid, sudoku_grid)

C7_Witness ==
    /\ mpc = "started"
    /\ EmptyCells(sudoku_grid) = RemovalCells
    /\ EmptyCells(solved_grid) = {}

\* the first zero cell of g in row-major order, with its solved value
IsFirstEmpty(g, solved, h) ==
    /\ g[<<h[1], h[2]>>] = 0
    /\ \A n \in Nodes :
           (n[1] < h[1] \/ (n[1] = h[1] /\ n[2] < h[2])) => g[n] # 0
    /\ h[3] = solved[<<h[1], h[2]>>]

NumEmpty(g) == Cardinality(EmptyCells(g))

\* C8: a hint step (get_hint, then the write of lines 160-162) takes one
\* empty cell away from the working grid as long as there is one, and
\* get_hint returns None exactly when there is none, the grid then staying
\* as it is.
C8_HintMonotone ==
    [][ mpc = "hint" =>
          IF EmptyCells(sudoku_grid) = {}
          THEN hint = None /\ sudoku_grid' = sudoku_grid
          ELSE hint # None /\ NumEmpty(sudoku_grid') = NumEmpty(sudoku_grid) - 1 ]_vars

\* the last empty cell is about to be filled by a hint
C8_Witness == mpc = "hint" /\ hint # None /\ NumEmpty(sudoku_grid) = 1

\* the hinted cell of g
HintCell(g, solved) ==
    IF get_hint(g, solved) = None THEN None
    ELSE <<get_hint(g, solved)[1], get_hint(g, solved)[2]>>

SameZeros(g, h) == EmptyCells(g) = EmptyCells(h)

\* C9: get_hint returns the first zero cell of the working grid in row-major
\* order with the value solved_grid has there (None iff there is none); a
\* change of the working grid that keeps its zero cells keeps the hinted
\* cell; the call changes neither grid.
C9_FirstEmptySlot ==
    /\ [](mpc = "hint" =>
            IF EmptyCells(sudoku_grid) = {} THEN hint = None
            ELSE hint # None /\ IsFirstEmpty(sudoku_grid, solved_grid, hint))
    /\ [][ SameZeros(sudoku_grid, sudoku_grid') /\ solved_grid' = solved_grid =>
             HintCell(sudoku_grid', solved_grid') = HintCell(sudoku_grid, solved_grid) ]_vars
    /\ [][ mpc = "events" /\ mpc' = "hint" =>
             sudoku_grid' = sudoku_grid /\ solved_grid' = solved_grid ]_vars

\* a hint returned while a wrong value stands in a cell before the hinted one
C9_Witness ==
    /\ mpc = "hint" /\ hint # None
    /\ \E n \in Nodes :
           /\ sudoku_grid[n] \notin {0, solved_grid[n]}
           /\ (n[1] < hint[1] \/ (n[1] = hint[1] /\ n[2] < hint[2]))

====
